---- MODULE Spec2Model ----
(***************************************************************************)
(* Model of complexity.py: a symbolic step counter for a small imperative  *)
(* sublanguage.  The Visitor walks function bodies, keeps a stack of       *)
(* Scopes whose effects map symbols to closed forms, and folds loop bodies *)
(* into the enclosing scope with repeated() (for) or with a solved         *)
(* iteration count (while).                                                *)
(*                                                                         *)
(* Expressions of the computer-algebra library are modelled by their       *)
(* expanded normal form: a polynomial with rational coefficients over      *)
(* symbols.  A symbol is the index of the Dummy that names it.             *)
(***************************************************************************)
EXTENDS Integers, Sequences, FiniteSets, TLC

(***************************************************************************)
(* Rational numbers <<num, den>> in lowest terms, den > 0.                 *)
(***************************************************************************)
Abs(x) == IF x < 0 THEN -x ELSE x

RECURSIVE GCD(_, _)
GCD(a, b) == IF b = 0 THEN a ELSE GCD(b, a % b)

Rat(n, d) ==
  LET s == IF d < 0 THEN -1 ELSE 1
      g == GCD(Abs(n), Abs(d))
  IN  <<(s * n) \div g, (s * d) \div g>>

RAdd(x, y) == Rat(x[1] * y[2] + y[1] * x[2], x[2] * y[2])
RMul(x, y) == Rat(x[1] * y[1], x[2] * y[2])
RNeg(x) == <<-x[1], x[2]>>
RInv(x) == Rat(x[2], x[1])
RIsInt(x) == x[2] = 1

RECURSIVE RPow(_, _)
RPow(x, k) == IF k = 0 THEN <<1, 1>> ELSE RMul(x, RPow(x, k - 1))

(***************************************************************************)
(* Monomials: a set of <<symbol, exponent>> pairs, exponent >= 1.          *)
(***************************************************************************)
MOne == {}
MSyms(m) == {p[1] : p \in m}
MExp(m, s) == IF s \in MSyms(m) THEN (CHOOSE p \in m : p[1] = s)[2] ELSE 0
MMul(m1, m2) == {<<s, MExp(m1, s) + MExp(m2, s)>> : s \in MSyms(m1) \cup MSyms(m2)}
MDrop(m, s) == {p \in m : p[1] # s}

(***************************************************************************)
(* Polynomials: a function from monomials to non-zero rationals.           *)
(***************************************************************************)
PZero == [m \in {} |-> <<0, 1>>]
PConst(r) == IF r[1] = 0 THEN PZero ELSE [m \in {MOne} |-> r]
PNum(k) == PConst(<<k, 1>>)
PSym(s) == [m \in {{<<s, 1>>}} |-> <<1, 1>>]
PCoef(p, m) == IF m \in DOMAIN p THEN p[m] ELSE <<0, 1>>

PAdd(p, q) ==
  LET D == DOMAIN p \cup DOMAIN q
      c(m) == RAdd(PCoef(p, m), PCoef(q, m))
  IN  [m \in {x \in D : c(x)[1] # 0} |-> c(m)]

PScale(r, p) == IF r[1] = 0 THEN PZero ELSE [m \in DOMAIN p |-> RMul(r, p[m])]
PNeg(p) == PScale(<<-1, 1>>, p)
PSub(p, q) == PAdd(p, PNeg(q))

\* p times the single term r * m0
PMulTerm(p, m0, r) ==
  LET D == DOMAIN p
  IN  IF r[1] = 0 THEN PZero
      ELSE [m \in {MMul(m0, x) : x \in D} |->
              RMul(r, p[CHOOSE x \in D : MMul(m0, x) = m])]

RECURSIVE PMulRec(_, _, _)
PMulRec(p, q, todo) ==
  IF todo = {} THEN PZero
  ELSE LET m == CHOOSE x \in todo : TRUE
       IN  PAdd(PMulTerm(p, m, q[m]), PMulRec(p, q, todo \ {m}))

PMul(p, q) == PMulRec(p, q, DOMAIN q)

RECURSIVE PPow(_, _)
PPow(p, k) == IF k = 0 THEN PNum(1) ELSE PMul(p, PPow(p, k - 1))

\* Basic.has(s): the symbol occurs in the expression
PHas(p, s) == \E m \in DOMAIN p : MExp(m, s) > 0

\* Basic.free_symbols
FreeSymbols(p) == UNION {MSyms(m) : m \in DOMAIN p}

PIsConst(p) == DOMAIN p \subseteq {MOne}
PConstVal(p) == PCoef(p, MOne)

\* Basic._subs(old, new) for a symbol old: every occurrence of s becomes r
RECURSIVE PSubsRec(_, _, _, _)
PSubsRec(p, s, r, todo) ==
  IF todo = {} THEN PZero
  ELSE LET m == CHOOSE x \in todo : TRUE
       IN  PAdd(PMulTerm(PPow(r, MExp(m, s)), MDrop(m, s), p[m]),
                PSubsRec(p, s, r, todo \ {m}))

PSubs(p, s, r) == IF PHas(p, s) THEN PSubsRec(p, s, r, DOMAIN p) ELSE p

\* the coefficient of s^d in p, as a polynomial free of s
PCoefOf(p, s, d) ==
  LET D == {m \in DOMAIN p : MExp(m, s) = d}
  IN  [m \in {MDrop(x, s) : x \in D} |-> p[CHOOSE x \in D : MDrop(x, s) = m]]

PDegree(p, s) ==
  IF DOMAIN p = {} THEN 0
  ELSE LET E == {MExp(m, s) : m \in DOMAIN p}
       IN  CHOOSE d \in E : \A x \in E : x <= d

(***************************************************************************)
(* Evaluation of a polynomial at integer values of its symbols.            *)
(***************************************************************************)
RECURSIVE IPow(_, _)
IPow(x, k) == IF k = 0 THEN 1 ELSE x * IPow(x, k - 1)

RECURSIVE MEval(_, _)
MEval(m, v) ==
  IF m = {} THEN 1
  ELSE LET p == CHOOSE x \in m : TRUE
       IN  IPow(v[p[1]], p[2]) * MEval(m \ {p}, v)

RECURSIVE EvalRec(_, _, _)
EvalRec(p, v, todo) ==
  IF todo = {} THEN <<0, 1>>
  ELSE LET m == CHOOSE x \in todo : TRUE
       IN  RAdd(RMul(p[m], <<MEval(m, v), 1>>), EvalRec(p, v, todo \ {m}))

Eval(p, v) == EvalRec(p, v, DOMAIN p)

(***************************************************************************)
(* sympy.summation(term, (i, a, b)) for a term polynomial in i: the        *)
(* Faulhaber closed form F_d(b) - F_d(a - 1), F_d(x) = 1^d + ... + x^d,    *)
(* for the degrees d <= 4.                                                 *)
(***************************************************************************)
Faulhaber(d, x) ==
  CASE d = 0 -> x
    [] d = 1 -> PScale(<<1, 2>>, PAdd(PPow(x, 2), x))
    [] d = 2 -> PScale(<<1, 6>>, PAdd(PScale(<<2, 1>>, PPow(x, 3)),
                                 PAdd(PScale(<<3, 1>>, PPow(x, 2)), x)))
    [] d = 3 -> PScale(<<1, 4>>, PAdd(PPow(x, 4),
                                 PAdd(PScale(<<2, 1>>, PPow(x, 3)), PPow(x, 2))))
    [] d = 4 -> PScale(<<1, 30>>, PAdd(PScale(<<6, 1>>, PPow(x, 5)),
                                  PAdd(PScale(<<15, 1>>, PPow(x, 4)),
                                  PAdd(PScale(<<10, 1>>, PPow(x, 3)), PNeg(x)))))

RECURSIVE SummationRec(_, _, _, _, _)
SummationRec(term, i, a, b, d) ==
  IF d < 0 THEN PZero
  ELSE PAdd(PMul(PCoefOf(term, i, d),
                 PSub(Faulhaber(d, b), Faulhaber(d, PSub(a, PNum(1))))),
            SummationRec(term, i, a, b, d - 1))

Summation(term, i, a, b) == SummationRec(term, i, a, b, PDegree(term, i))

(***************************************************************************)
(* repeated(n, i, e, a, b)                                                 *)
(***************************************************************************)
Ok(p) == [kind |-> "ok", val |-> p, err |-> ""]
Raise(x) == [kind |-> "raise", val |-> PZero, err |-> x]
\* a result outside the polynomial fragment (symbolic exponent, logarithm)
Unmodelled == [kind |-> "unmodelled", val |-> PZero, err |-> ""]

IterationsOff(a, b) == PSub(b, a)

\* the number of iterations b - a + 1
Iterations(a, b) == PAdd(PSub(b, a), PNum(1))

\* coeff ** k
Power(coeff, k) ==
  IF PIsConst(k) /\ RIsInt(PConstVal(k))
  THEN IF PConstVal(k)[1] >= 0 THEN Ok(PPow(coeff, PConstVal(k)[1]))
       ELSE IF PIsConst(coeff) /\ coeff # PZero
            THEN Ok(PConst(RPow(RInv(PConstVal(coeff)), -PConstVal(k)[1])))
            ELSE Unmodelled
  ELSE Unmodelled

Repeated(n, i, e, a, b) ==
  IF PHas(e, i)
  THEN IF PHas(e, n)
       THEN IF ~PHas(PSub(e, PSym(n)), n)
            THEN LET term == PSub(e, PSym(n))
                 IN  IF PDegree(term, i) > 4 THEN Unmodelled
                     ELSE Ok(PAdd(PSym(n), Summation(term, i, a, b)))
            ELSE Raise("NotImplementedError")
       ELSE Ok(PSubs(e, i, b))
  ELSE IF PHas(e, n)
       THEN IF ~PHas(PSub(e, PSym(n)), n)
            THEN LET term == PSub(e, PSym(n))
                 IN  Ok(PAdd(PSym(n), PMul(term, Iterations(a, b))))
            ELSE \* c, args = e.as_coeff_add(n): args are the terms with n
                 LET args == {m \in DOMAIN e : MExp(m, n) > 0}
                 IN  IF Cardinality(args) # 1
                     THEN Raise("ValueError")      \* arg, = args
                     ELSE LET m == CHOOSE x \in args : TRUE
                              coeff == PMulTerm(PNum(1), MDrop(m, n), e[m])
                              pw == Power(coeff, Iterations(a, b))
                          IN  IF MExp(m, n) # 1   \* (arg / n) still has n
                              THEN Raise("NotImplementedError")
                              ELSE IF pw.kind = "ok"
                                   THEN Ok(PMul(PSym(n), pw.val))
                                   ELSE Unmodelled
       ELSE Ok(e)

(***************************************************************************)
(* Bounds of the model.                                                    *)
(***************************************************************************)
MaxStmts == 3      \* statements visited in one run
MaxDepth == 3      \* nesting of scopes (function, loop, loop)
NumFuncs == 2      \* top-level functions of the module
MaxVal == 3        \* symbols range over 0 .. MaxVal when a closed form is evaluated
MaxCoef == 2       \* coefficients of the updates handed to repeated()
MaxB == 5          \* bounds a <= b of repeated() range over 0 .. MaxB

VARIABLES
  pc,          \* "run", "raised" (an exception left main) or "done"
  stack,       \* the scopes from the function scope to current_scope
  dummyCount,  \* number of Dummy symbols created so far
  symName,     \* symName[s]: the name of Dummy s
  symOwner,    \* symOwner[s]: uid of the scope that created s (0: a solver symbol)
  scopeParent, \* scopeParent[u]: uid of the parent of scope u (0: none)
  fnIdx,       \* number of top-level functions whose visit has started
  failedAt,    \* the function in whose visit an exception was raised, or 0
  reports,     \* the report blocks printed so far
  log,         \* "Result" lines logged for the current function
  nStmts,      \* statements visited so far
  last,        \* the last step taken and the scopes it started from
  rq,          \* arguments of a call of repeated()
  rres         \* its result

vars == <<pc, stack, dummyCount, symName, symOwner, scopeParent, fnIdx,
          failedAt, reports, log, nStmts, last, rq, rres>>

visitorVars == <<pc, stack, dummyCount, symName, symOwner, scopeParent, fnIdx,
                 failedAt, reports, log, nStmts, last>>

(***************************************************************************)
(* Scope                                                                   *)
(***************************************************************************)
None == [set |-> FALSE, val |-> PZero]
NoTest == [op |-> "", lhs |-> PZero, rhs |-> PZero]

\* Dummy.sort_key orders Dummies by name, then by dummy_index
NameRank(nm) ==
  CASE nm = "i" -> 1 [] nm = "imax" -> 2 [] nm = "itervar" -> 3
    [] nm = "j" -> 4 [] nm = "k" -> 5 [] nm = "n" -> 6
    [] nm = "s" -> 7 [] nm = "steps" -> 8 [] nm = "x" -> 9

SortBefore(names, s, t) ==
  \/ NameRank(names[s]) < NameRank(names[t])
  \/ NameRank(names[s]) = NameRank(names[t]) /\ s < t

\* expr.subs(dict): the pairs are applied one after the other, in the order
\* of the sort keys of the replaced symbols; a later pair also rewrites what
\* an earlier pair put in
RECURSIVE SubsOrdered(_, _, _, _)
SubsOrdered(names, e, eff, keys) ==
  IF keys = {} THEN e
  ELSE LET k == CHOOSE x \in keys :
                  \A y \in keys \ {x} : SortBefore(names, eff[x][1], eff[y][1])
       IN  SubsOrdered(names, PSubs(e, eff[k][1], eff[k][2]), eff, keys \ {k})

SubsDict(names, e, eff) == SubsOrdered(names, e, eff, DOMAIN eff)

AffectFirst(names, sc, e) ==
  LET hit == {k \in DOMAIN sc.effects : PHas(e, sc.effects[k][1])}
  IN  IF hit = {} THEN e
      ELSE LET k == CHOOSE x \in hit :
                      \A y \in hit \ {x} :
                         SortBefore(names, sc.effects[x][1], sc.effects[y][1])
           IN  PSubs(e, sc.effects[k][1], sc.effects[k][2])

\* Scope.affect
Affect(names, sc, e) == SubsDict(names, e, sc.effects)

EffKeys(eff) == {eff[k][1] : k \in DOMAIN eff}
EffGet(eff, s) == eff[CHOOSE k \in DOMAIN eff : eff[k][1] = s][2]

\* self._effects[name] = value, in a dict that keeps insertion order
EffPut(eff, s, p) ==
  IF s \in EffKeys(eff)
  THEN [eff EXCEPT ![CHOOSE k \in DOMAIN eff : eff[k][1] = s] = <<s, p>>]
  ELSE Append(eff, <<s, p>>)

\* Scope.add_effect for a Symbol
AddEffectSym(names, sc, s, e) ==
  [sc EXCEPT !.effects = EffPut(sc.effects, s, Affect(names, sc, e))]

\* Scope.changed_vars
ChangedVars(sc) == EffKeys(sc.effects)

LocalOf(sc, name) ==
  IF \E l \in sc.locals : l[1] = name
  THEN (CHOOSE l \in sc.locals : l[1] = name)[2]
  ELSE 0

\* Scope.__getitem__ for a str, from scope st[d] up through its parents;
\* 0 stands for KeyError
RECURSIVE Lookup(_, _, _)
Lookup(st, d, name) ==
  IF d = 0 THEN 0
  ELSE IF LocalOf(st[d], name) # 0 THEN LocalOf(st[d], name)
       ELSE Lookup(st, d - 1, name)

\* Scope.add_one_step: self.add_effect(s.steps, s.steps + 1) for s = st[d]
\* and each of its parents
RECURSIVE AddOneStep(_, _, _, _)
AddOneStep(names, sc, st, d) ==
  IF d = 0 THEN sc
  ELSE AddOneStep(names,
                  AddEffectSym(names, sc, st[d].steps,
                               PAdd(PSym(st[d].steps), PNum(1))),
                  st, d - 1)

InheritingEffects(st) == IF st = <<>> THEN <<>> ELSE st[Len(st)].effects

\* self._effects = {}
InitialEffects(st) == <<>>

\* Scope.__init__(parent, parameters); st holds the parent and its parents,
\* base is the number of Dummies created before
NewScope(names, st, params, base, uid, kind) ==
  LET steps == base + Len(params) + 1
      sc0 == [uid |-> uid, kind |-> kind,
              locals |-> {<<params[k], base + k>> : k \in 1..Len(params)},
              steps |-> steps,
              effects |-> InitialEffects(st),
              output |-> None,
              a |-> PZero, b |-> PZero, itervar |-> 0, test |-> NoTest]
      sc1 == AddEffectSym(names, sc0, steps, PZero)
  IN  AddOneStep(names, sc1, Append(st, sc1), Len(st) + 1)

\* the setter of Scope.output: write-once
SetOutput(sc, x) ==
  IF ~sc.output.set
  THEN [kind |-> "ok", sc |-> [sc EXCEPT !.output = [set |-> TRUE, val |-> x]]]
  ELSE [kind |-> "raise", sc |-> sc]

(***************************************************************************)
(* Expressions of the analysed program, as syntax trees:                   *)
(*   <<"Num", k>>, <<"Name", id>>, <<"BinOp", op, left, right>>,           *)
(*   <<"Compare", op, left, right>>                                        *)
(***************************************************************************)
\* Visitor.binop for the arithmetic operators
Binop(l, op, r) ==
  CASE op = "Add" -> PAdd(l, r)
    [] op = "Sub" -> PSub(l, r)
    [] op = "Mult" -> PMul(l, r)

\* visit_Num, visit_Name, visit_BinOp
RECURSIVE Visit(_, _)
Visit(st, node) ==
  CASE node[1] = "Num" -> Ok(PNum(node[2]))
    [] node[1] = "Name" ->
         IF Lookup(st, Len(st), node[2]) = 0 THEN Raise("KeyError")
         ELSE Ok(PSym(Lookup(st, Len(st), node[2])))
    [] node[1] = "BinOp" ->
         LET l == Visit(st, node[3])
             r == Visit(st, node[4])
         IN  IF l.kind # "ok" THEN l
             ELSE IF r.kind # "ok" THEN r
             ELSE Ok(Binop(l.val, node[2], r.val))

\* visit_Compare with one comparator: a relational left op right
VisitCompare(st, node) ==
  LET l == Visit(st, node[3])
      r == Visit(st, node[4])
  IN  IF l.kind # "ok" THEN [kind |-> "raise", test |-> NoTest]
      ELSE IF r.kind # "ok" THEN [kind |-> "raise", test |-> NoTest]
      ELSE [kind |-> "ok", test |-> [op |-> node[2], lhs |-> l.val, rhs |-> r.val]]

\* Relational.gts and Relational.lts
Gts(t) == IF t.op \in {"Lt", "LtE"} THEN t.rhs ELSE t.lhs
Lts(t) == IF t.op \in {"Lt", "LtE"} THEN t.lhs ELSE t.rhs

TerminationFunction(t) ==
  LET c == IF t.op \in {"LtE", "GtE"} THEN 0 ELSE 1
  IN  PSub(PSub(Gts(t), Lts(t)), PNum(c))

\* what the assumptions integer, nonnegative of a Dummy refute of a solution
IsNegative(p) ==
  /\ \A m \in DOMAIN p : p[m][1] < 0
  /\ MOne \in DOMAIN p
IsNonInteger(p) ==
  /\ MOne \in DOMAIN p /\ ~RIsInt(p[MOne])
  /\ \A m \in DOMAIN p \ {MOne} : RIsInt(p[m])

\* sympy.solve(o, x, dict=True)[0][x], for o linear in x
Solve(o, x) ==
  IF PDegree(o, x) = 0 THEN Raise("IndexError")
  ELSE IF PDegree(o, x) > 1 \/ ~PIsConst(PCoefOf(o, x, 1)) THEN Unmodelled
  ELSE LET sol == PScale(RNeg(RInv(PConstVal(PCoefOf(o, x, 1)))), PCoefOf(o, x, 0))
       IN  IF IsNegative(sol) \/ IsNonInteger(sol) THEN Raise("IndexError")
           ELSE Ok(sol)

\* sympy.Order(e, (x, oo)).args[0] of a polynomial: the power of x that leads
BigO(e, x) == PDegree(e, x)

(***************************************************************************)
(* The statements the visitor is given.                                    *)
(***************************************************************************)
Num(k) == <<"Num", k>>
Name(id) == <<"Name", id>>
BinOp(l, op, r) == <<"BinOp", op, l, r>>

Params == <<"n", "x">>

\* target = value
AssignInputs ==
  { <<"s", Num(0)>>,
    <<"x", BinOp(Name("x"), "Sub", Num(1))>> }

\* target op= value
AugAssignInputs ==
  { <<"n", "Add", Num(1)>>,
    <<"s", "Add", Num(1)>> }

ReturnInputs == { Name("n") }

\* the arguments of range(...) in a for loop
RangeInputs ==
  { <<Num(1), BinOp(Name("n"), "Add", Num(1))>>,
    <<Num(1), BinOp(Name("i"), "Add", Num(1))>>,
    <<Num(5), Name("n")>> }

\* the test of a while loop
TestInputs ==
  { <<"Compare", "Lt", Name("n"), Name("x")>>,
    <<"Compare", "GtE", Name("x"), Name("n")>> }

\* the name of the index of a for loop entered from a scope at depth d
IndexName(d) == CASE d = 1 -> "i" [] d = 2 -> "j" [] OTHER -> "k"

(***************************************************************************)
(* The visitor                                                             *)
(***************************************************************************)
Top == stack[Len(stack)]
Outer(st) == SubSeq(st, 1, Len(st) - 1)
SetTop(st, sc) == [st EXCEPT ![Len(st)] = sc]
Step(op, K) == [op |-> op, prev |-> stack, K |-> K]

Swallowed == "run"

\* VisitorBase.visit re-raises what a handler raised, and neither
\* visit_Module nor main catches it
Propagated == "raised"

\* no call of repeated() on its own is under way
NoRequest == [d |-> 0, cn |-> 0, ci |-> 0, cni |-> 0, cnn |-> 0, cii |-> 0,
              den |-> 1, a |-> 0, b |-> 0]
Idle == [kind |-> "idle", val |-> PZero, err |-> ""]
Pending == [kind |-> "pending", val |-> PZero, err |-> ""]

Running == pc = "run" /\ stack # <<>>

\* a function of the analysed module ends with its return statements: no
\* other statement follows one
CanReturn == Running /\ nStmts < MaxStmts /\ Len(stack) = 1
CanVisit == Running /\ nStmts < MaxStmts /\ log = <<>>

\* an exception raised while a statement is visited
Fail(op) ==
  /\ pc' = Propagated
  /\ failedAt' = fnIdx
  /\ last' = Step(op, PZero)
  /\ UNCHANGED <<stack, dummyCount, symName, symOwner, scopeParent, fnIdx,
                 reports, log>>

Init ==
  /\ pc = "run"
  /\ stack = <<>>
  /\ dummyCount = 0
  /\ symName = <<>>
  /\ symOwner = <<>>
  /\ scopeParent = <<>>
  /\ fnIdx = 0
  /\ failedAt = 0
  /\ reports = <<>>
  /\ log = <<>>
  /\ nStmts = 0
  /\ last = [op |-> "Init", prev |-> <<>>, K |-> PZero]
  /\ rq = NoRequest
  /\ rres = Idle

\* visit_Module reaches the next FunctionDef; visit_FunctionDef pushes its scope
FunctionDefEnter ==
  /\ pc = "run" /\ stack = <<>> /\ fnIdx < NumFuncs
  /\ LET names == symName \o Params \o <<"steps">>
         uid == Len(scopeParent) + 1
     IN  /\ stack' = <<NewScope(names, <<>>, Params, dummyCount, uid, "func")>>
         /\ symName' = names
         /\ symOwner' = symOwner \o [k \in 1..(Len(Params) + 1) |-> uid]
         /\ scopeParent' = Append(scopeParent, 0)
         /\ dummyCount' = dummyCount + Len(Params) + 1
  /\ fnIdx' = fnIdx + 1
  /\ last' = Step("FunctionDefEnter", PZero)
  /\ UNCHANGED <<pc, failedAt, reports, log, nStmts, rq, rres>>

\* the rest of visit_FunctionDef after the body, and the printing of the
\* function's lines by visit_Module.  Nothing refers to the Dummies and the
\* scopes of a function once its scope is popped, so they are forgotten and
\* the next function numbers its own from 1.
FunctionDefExit ==
  /\ Running /\ Len(stack) = 1
  /\ LET sc == Top
         p0 == Lookup(stack, 1, Params[1])
     IN  reports' = Append(reports,
                      [fn |-> fnIdx,
                       order |-> BigO(Affect(symName, sc, PSym(sc.steps)), p0),
                       output |-> IF sc.output.set
                                  THEN <<Affect(symName, sc, sc.output.val)>>
                                  ELSE <<>>,
                       results |-> Len(log)])
  /\ stack' = <<>>
  /\ log' = <<>>
  /\ dummyCount' = 0
  /\ symName' = <<>>
  /\ symOwner' = <<>>
  /\ scopeParent' = <<>>
  /\ pc' = IF fnIdx = NumFuncs THEN "done" ELSE "run"
  /\ last' = [op |-> "FunctionDefExit", prev |-> <<>>, K |-> PZero]
  /\ UNCHANGED <<fnIdx, failedAt, nStmts, rq, rres>>

\* current_scope.add_effect(name, expr) for a str: the symbol of the name,
\* a new local of the current scope when the name is unknown
AddEffectName(name, expr) ==
  LET known == Lookup(stack, Len(stack), name)
      fresh == known = 0
      sym == IF fresh THEN dummyCount + 1 ELSE known
      names == IF fresh THEN Append(symName, name) ELSE symName
      sc0 == IF fresh
             THEN [Top EXCEPT !.locals = @ \cup {<<name, sym>>}]
             ELSE Top
  IN  /\ stack' = SetTop(stack, AddEffectSym(names, sc0, sym, expr))
      /\ symName' = names
      /\ symOwner' = IF fresh THEN Append(symOwner, Top.uid) ELSE symOwner
      /\ dummyCount' = IF fresh THEN dummyCount + 1 ELSE dummyCount

VisitAssign ==
  /\ CanVisit
  /\ \E inp \in AssignInputs :
       LET expr == Visit(stack, inp[2])
       IN  IF expr.kind = "ok"
           THEN /\ AddEffectName(inp[1], expr.val)
                /\ last' = Step("Assign", PZero)
                /\ UNCHANGED <<pc, failedAt, scopeParent, fnIdx, reports, log>>
           ELSE Fail("Assign")
  /\ nStmts' = nStmts + 1
  /\ UNCHANGED <<rq, rres>>

VisitAugAssign ==
  /\ CanVisit
  /\ \E inp \in AugAssignInputs :
       LET expr == Visit(stack, inp[3])
           target == Lookup(stack, Len(stack), inp[1])
       IN  IF expr.kind = "ok" /\ target # 0
           THEN /\ AddEffectName(inp[1], Binop(PSym(target), inp[2], expr.val))
                /\ last' = Step("AugAssign", PZero)
                /\ UNCHANGED <<pc, failedAt, scopeParent, fnIdx, reports, log>>
           ELSE Fail("AugAssign")
  /\ nStmts' = nStmts + 1
  /\ UNCHANGED <<rq, rres>>

\* visit_Return logs the affected value; it does not assign Scope.output
VisitReturn ==
  /\ CanReturn
  /\ \E inp \in ReturnInputs :
       LET expr == Visit(stack, inp)
       IN  IF expr.kind = "ok"
           THEN /\ log' = Append(log, Affect(symName, Top, expr.val))
                /\ last' = Step("Return", PZero)
                /\ UNCHANGED <<pc, stack, dummyCount, symName, symOwner,
                               scopeParent, fnIdx, failedAt, reports>>
           ELSE Fail("Return")
  /\ nStmts' = nStmts + 1
  /\ UNCHANGED <<rq, rres>>

\* Scope(self.current_scope, params) pushed by a loop
PushScope(params, kind, a, b, test) ==
  LET names == symName \o params \o <<"steps">>
      uid == Len(scopeParent) + 1
      sc == NewScope(names, stack, params, dummyCount, uid, kind)
  IN  /\ stack' = Append(stack,
                    [sc EXCEPT !.a = a, !.b = b, !.test = test,
                               !.itervar = IF params = <<>> THEN 0
                                           ELSE LocalOf(sc, params[1])])
      /\ symName' = names
      /\ symOwner' = symOwner \o [k \in 1..(Len(params) + 1) |-> uid]
      /\ scopeParent' = Append(scopeParent, Top.uid)
      /\ dummyCount' = dummyCount + Len(params) + 1

\* visit_For up to the visit of the body
ForEnter ==
  /\ CanVisit /\ Len(stack) < MaxDepth
  /\ \E args \in RangeInputs :
       LET a == IF Len(args) = 1 THEN Ok(PZero) ELSE Visit(stack, args[1])
           b == IF Len(args) = 1 THEN Visit(stack, args[1]) ELSE Visit(stack, args[2])
       IN  IF Len(args) <= 2 /\ a.kind = "ok" /\ b.kind = "ok"
           THEN /\ PushScope(<<IndexName(Len(stack))>>, "for", a.val, b.val, NoTest)
                /\ last' = Step("ForEnter", PZero)
                /\ UNCHANGED <<pc, failedAt, fnIdx, reports, log>>
           ELSE Fail("ForEnter")
  /\ nStmts' = nStmts + 1
  /\ UNCHANGED <<rq, rres>>

\* the loop of visit_For over the effects of the body: items[k..] are folded
\* into sc with repeated(nsymb, itervar, e, a, b - 1)
\* range(a, b) ends at b - 1
LastIndex(b) == PSub(b, PNum(1))

RECURSIVE FoldFor(_, _, _, _, _, _, _)
FoldFor(names, sc, items, itervar, a, b, k) ==
  IF k > Len(items) THEN [kind |-> "ok", sc |-> sc]
  ELSE LET ee == Repeated(items[k][1], itervar, items[k][2], a, LastIndex(b))
       IN  IF ee.kind # "ok" THEN [kind |-> ee.kind, sc |-> sc]
           ELSE FoldFor(names, AddEffectSym(names, sc, items[k][1], ee.val),
                        items, itervar, a, b, k + 1)

\* visit_For after the visit of the body
ForFold ==
  /\ Running /\ Top.kind = "for"
  /\ LET body == Top
         sc == stack[Len(stack) - 1]
         r == FoldFor(symName, sc, body.effects, body.itervar, body.a, body.b, 1)
     IN  /\ r.kind # "unmodelled"
         /\ IF r.kind = "ok"
            THEN /\ stack' = SetTop(Outer(stack), r.sc)
                 /\ last' = Step("ForFold", PZero)
                 /\ UNCHANGED <<pc, failedAt, dummyCount, symName, symOwner,
                                scopeParent, fnIdx, reports, log>>
            ELSE Fail("ForFold")
  /\ UNCHANGED <<nStmts, rq, rres>>

\* visit_While up to the visit of the body
WhileEnter ==
  /\ CanVisit /\ Len(stack) < MaxDepth
  /\ \E t \in TestInputs :
       LET test == VisitCompare(stack, t)
       IN  IF test.kind = "ok"
           THEN /\ PushScope(<<>>, "while", PZero, PZero, test.test)
                /\ last' = Step("WhileEnter", PZero)
                /\ UNCHANGED <<pc, failedAt, fnIdx, reports, log>>
           ELSE Fail("WhileEnter")
  /\ nStmts' = nStmts + 1
  /\ UNCHANGED <<rq, rres>>

\* effects[nsymb] = sc.affect(repeated(nsymb, itervar, e, 1, imax)) for the
\* effects items[k..] of the body
RECURSIVE WhileEffects(_, _, _, _, _, _)
WhileEffects(names, sc, items, itervar, imax, k) ==
  IF k > Len(items) THEN [kind |-> "ok", eff |-> <<>>]
  ELSE LET ee == Repeated(items[k][1], itervar, items[k][2], PNum(1), PSym(imax))
           rest == WhileEffects(names, sc, items, itervar, imax, k + 1)
       IN  IF ee.kind = "raise" \/ rest.kind = "raise"
           THEN [kind |-> "raise", eff |-> <<>>]
           ELSE IF ee.kind # "ok" \/ rest.kind # "ok"
           THEN [kind |-> "unmodelled", eff |-> <<>>]
           ELSE [kind |-> "ok",
                 eff |-> <<<<items[k][1], Affect(names, sc, ee.val)>>>> \o rest.eff]

\* the last loop of visit_While: add_effect(n, e.subs(imax, iterations))
RECURSIVE InstallWhile(_, _, _, _, _, _)
InstallWhile(names, sc, eff, imax, iterations, k) ==
  IF k > Len(eff) THEN sc
  ELSE InstallWhile(names,
                    AddEffectSym(names, sc, eff[k][1],
                                 PSubs(eff[k][2], imax, iterations)),
                    eff, imax, iterations, k + 1)

\* visit_While after the visit of the body
WhileFold ==
  /\ Running /\ Top.kind = "while"
  /\ LET body == Top
         sc == stack[Len(stack) - 1]
         test == body.test
         testVars == FreeSymbols(test.lhs) \cup FreeSymbols(test.rhs)
         itVars == testVars \cap ChangedVars(body)
         itervar == dummyCount + 1
         imax == dummyCount + 2
         names == symName \o <<"itervar", "imax">>
         effects == WhileEffects(names, sc, body.effects, itervar, imax, 1)
         o == SubsDict(names, TerminationFunction(test), effects.eff)
         iterations == Solve(o, imax)
     IN  IF itVars = {}
         THEN Fail("WhileFold")      \* ValueError: no iteration variables
         ELSE /\ symName' = names
              /\ symOwner' = symOwner \o <<0, 0>>
              /\ dummyCount' = dummyCount + 2
              /\ effects.kind # "unmodelled"
              /\ effects.kind = "ok" => iterations.kind # "unmodelled"
              /\ IF effects.kind = "ok" /\ iterations.kind = "ok"
                 THEN /\ stack' = SetTop(Outer(stack),
                                    InstallWhile(names, sc, effects.eff, imax,
                                                 iterations.val, 1))
                      /\ last' = Step("WhileFold", iterations.val)
                      /\ UNCHANGED <<pc, failedAt>>
                 ELSE /\ pc' = Propagated
                      /\ failedAt' = fnIdx
                      /\ last' = Step("WhileFold", PZero)
                      /\ UNCHANGED stack
              /\ UNCHANGED <<scopeParent, fnIdx, reports, log>>
  /\ UNCHANGED <<nStmts, rq, rres>>

Next ==
  \/ FunctionDefEnter
  \/ FunctionDefExit
  \/ VisitAssign
  \/ VisitAugAssign
  \/ VisitReturn
  \/ ForEnter
  \/ ForFold
  \/ WhileEnter
  \/ WhileFold

Spec == Init /\ [][Next]_vars

(***************************************************************************)
(* repeated() on its own: the update e is                                  *)
(*   (d + cn*n + ci*i + cni*n*i + cnn*n^2 + cii*i^2) / den                 *)
(* with n the symbol 1 and i the symbol 2, and a <= b are integers.        *)
(***************************************************************************)
SymN == 1
SymI == 2

Update(r) ==
  LET n == PSym(SymN)
      i == PSym(SymI)
  IN  PScale(<<1, r.den>>,
        PAdd(PNum(r.d),
        PAdd(PScale(<<r.cn, 1>>, n),
        PAdd(PScale(<<r.ci, 1>>, i),
        PAdd(PScale(<<r.cni, 1>>, PMul(n, i)),
        PAdd(PScale(<<r.cnn, 1>>, PMul(n, n)),
             PScale(<<r.cii, 1>>, PMul(i, i))))))))

Requests ==
  [d : -MaxCoef..MaxCoef, cn : -MaxCoef..MaxCoef, ci : -1..1,
   cni : 0..1, cnn : 0..1, cii : 0..1, den : 1..2,
   a : 0..MaxB, b : 0..MaxB]

InitRepeated ==
  /\ pc = "idle"
  /\ stack = <<>>
  /\ dummyCount = 0
  /\ symName = <<>>
  /\ symOwner = <<>>
  /\ scopeParent = <<>>
  /\ fnIdx = 0
  /\ failedAt = 0
  /\ reports = <<>>
  /\ log = <<>>
  /\ nStmts = 0
  /\ last = [op |-> "Init", prev |-> <<>>, K |-> PZero]
  /\ rq \in {r \in Requests : r.a <= r.b}
  /\ rres = Pending

CallRepeated ==
  /\ rres = Pending
  /\ rres' = Repeated(SymN, SymI, Update(rq), PNum(rq.a), PNum(rq.b))
  /\ UNCHANGED <<rq, visitorVars>>

NextRepeated == CallRepeated

SpecRepeated == InitRepeated /\ [][NextRepeated]_vars

\* the value after the update e has been applied for i = k, k + 1, ..., b
RECURSIVE Unroll(_, _, _, _)
Unroll(e, cur, k, b) ==
  IF k > b THEN cur
  ELSE Unroll(e, PSubs(PSubs(e, SymI, PNum(k)), SymN, cur), k + 1, b)

Returned == rres.kind \notin {"idle", "pending"}

HasN(r) == r.cn # 0 \/ r.cni # 0 \/ r.cnn # 0
HasI(r) == r.ci # 0 \/ r.cni # 0 \/ r.cii # 0
ShapeConstant(r) == ~HasN(r) /\ ~HasI(r)
ShapeOfI(r) == ~HasN(r) /\ HasI(r)
ShapeNPlusT(r) == r.cn = r.den /\ r.cni = 0 /\ r.cnn = 0 /\ ~HasI(r)
ShapeCTimesN(r) == r.cn # 0 /\ r.d = 0 /\ r.cni = 0 /\ r.cnn = 0 /\ ~HasI(r)
ShapeNPlusTOfI(r) == r.cn = r.den /\ r.cni = 0 /\ r.cnn = 0 /\ HasI(r)
Supported(r) ==
  \/ ShapeConstant(r) \/ ShapeOfI(r) \/ ShapeNPlusT(r)
  \/ ShapeCTimesN(r) \/ ShapeNPlusTOfI(r)

C4_UnsupportedRaises ==
  (Returned /\ HasN(rq) /\ ~Supported(rq)) => rres.kind = "raise"

(***************************************************************************)
(* Properties of the visitor.  A closed form is compared with the analysed *)
(* program by running the program: the initial-value symbols take every    *)
(* value in 0 .. MaxVal, a variable's current value is what the scope has  *)
(* recorded for it, and a loop body is executed the number of times the    *)
(* loop runs.                                                              *)
(***************************************************************************)
Valuations(S) == [S -> 0..MaxVal]

\* the scopes the last step started from: the current scope and its parent
PrevTop == last.prev[Len(last.prev)]
PrevOuter == last.prev[Len(last.prev) - 1]

\* the uids of the scopes above scope u
RECURSIVE Ancestors(_)
Ancestors(u) ==
  IF u = 0 \/ scopeParent[u] = 0 THEN {}
  ELSE {scopeParent[u]} \cup Ancestors(scopeParent[u])

\* the current value of symbol s in scope sc, over the initial values
EntryValue(sc, s) ==
  IF s \in ChangedVars(sc) THEN EffGet(sc.effects, s) ELSE PSym(s)

Whole(r) == \A s \in DOMAIN r : r[s][2] = 1
Ints(r) == [s \in DOMAIN r |-> r[s][1]]

\* the values of the symbols of E when scope sc is left, at valuation v
EntryEnv(sc, E, v) == [s \in E |-> Eval(EntryValue(sc, s), v)]

\* the symbols a valuation must give a value for the symbols of E in sc
EntrySymbols(sc, E) == UNION {FreeSymbols(EntryValue(sc, s)) : s \in E}

\* the values after one execution of the body, from the values env
BodyOnce(body, env) ==
  [s \in DOMAIN env |->
     IF s \in ChangedVars(body) THEN Eval(EffGet(body.effects, s), env)
     ELSE <<env[s], 1>>]

\* the values after j executions of the body
RECURSIVE After(_, _, _)
After(body, env, j) ==
  IF j = 0 THEN [ok |-> TRUE, env |-> env]
  ELSE LET nx == BodyOnce(body, env)
       IN  IF Whole(nx) THEN After(body, Ints(nx), j - 1)
           ELSE [ok |-> FALSE, env |-> env]

\* the steps of the executions of the body of a for loop for the index
\* values j .. hi, added to total
RECURSIVE RunFor(_, _, _, _, _)
RunFor(body, env, j, hi, total) ==
  IF j > hi THEN [ok |-> TRUE, total |-> total]
  ELSE LET e1 == [env EXCEPT ![body.itervar] = j]
           nx == BodyOnce(body, e1)
       IN  IF Whole(nx)
           THEN RunFor(body, Ints(nx), j + 1, hi,
                       RAdd(total, Eval(EffGet(body.effects, body.steps), e1)))
           ELSE [ok |-> FALSE, total |-> total]

IsSteps(s) == symName[s] = "steps"

\* the body is the one of `for i in range(1, n + 1)` in a function that has
\* not touched n, with a nested `for j in range(1, i + 1)` of one step each
Loop2Shape(body, outer) ==
  LET n == Lookup(<<outer>>, 1, Params[1])
  IN  /\ outer.kind = "func"
      /\ n \notin ChangedVars(outer)
      /\ EffGet(outer.effects, outer.steps) = PNum(1)
      /\ body.a = PNum(1)
      /\ body.b = PAdd(PSym(n), PNum(1))
      /\ EffGet(body.effects, body.steps) = PAdd(PNum(1), PSym(body.itervar))

\* C1: after a for loop over range(a, b) is folded, the steps recorded on
\* the enclosing scope equal the steps recorded before the loop plus the sum
\* over i = a .. b - 1 of the steps of the body in the iteration for i; and
\* for the nest `for i in range(1, n + 1): for j in range(1, i + 1)` the
\* steps of the function have degree 2 in n.
C1_ForFoldSumsBodySteps ==
  (last.op = "ForFold" /\ pc = "run") =>
    LET body == PrevTop
        outer == PrevOuter
        pre == EffGet(outer.effects, outer.steps)
        post == EffGet(Top.effects, outer.steps)
        user == {s \in ChangedVars(body) : ~IsSteps(s)}
        E == (user
                \cup UNION {FreeSymbols(EffGet(body.effects, s)) : s \in user}
                \cup FreeSymbols(EffGet(body.effects, body.steps))
                \cup FreeSymbols(body.a) \cup FreeSymbols(body.b))
             \ {body.itervar}
        V == EntrySymbols(outer, E) \cup FreeSymbols(pre) \cup FreeSymbols(post)
    IN  /\ \A v \in Valuations(V) :
             LET env == EntryEnv(outer, E, v)
             IN  Whole(env) =>
                   LET e0 == [s \in E \cup {body.itervar} |->
                                IF s \in E THEN env[s][1] ELSE 0]
                       lo == Eval(body.a, e0)
                       hi == Eval(body.b, e0)
                       run == RunFor(body, e0, lo[1], hi[1] - 1, <<0, 1>>)
                   IN  (lo[2] = 1 /\ hi[2] = 1 /\ lo[1] <= hi[1] /\ run.ok) =>
                          Eval(post, v) = RAdd(Eval(pre, v), run.total)
        /\ Loop2Shape(body, outer) =>
             PDegree(post, Lookup(<<outer>>, 1, Params[1])) = 2

\* the relational test holds at the values env
Holds(test, env) ==
  LET l == Eval(test.lhs, env)
      r == Eval(test.rhs, env)
  IN  CASE test.op = "Lt" -> l[1] * r[2] < r[1] * l[2]
        [] test.op = "LtE" -> l[1] * r[2] <= r[1] * l[2]
        [] test.op = "Gt" -> l[1] * r[2] > r[1] * l[2]
        [] test.op = "GtE" -> l[1] * r[2] >= r[1] * l[2]

\* the body changes each symbol of S by a constant integer amount
ConstantSteps(body, S) ==
  \A s \in S :
     LET d == PSub(EffGet(body.effects, s), PSym(s))
     IN  PIsConst(d) /\ RIsInt(PConstVal(d))

\* C2: when the body of a while loop changes the compared variables by
\* constant integer amounts, the solved iteration count K is the smallest
\* number of executions of the body after which the test is false: the test
\* holds after every k < K executions and does not hold after K.
C2_SolvedCountIsSmallest ==
  (last.op = "WhileFold" /\ pc = "run") =>
    LET body == PrevTop
        outer == PrevOuter
        test == body.test
        E == FreeSymbols(test.lhs) \cup FreeSymbols(test.rhs)
        V == EntrySymbols(outer, E) \cup FreeSymbols(last.K)
    IN  ConstantSteps(body, E \cap ChangedVars(body)) =>
          \A v \in Valuations(V) :
             LET k == Eval(last.K, v)
                 env == EntryEnv(outer, E, v)
             IN  (k[2] = 1 /\ k[1] >= 0 /\ Whole(env)) =>
                    /\ \A j \in 0..(k[1] - 1) :
                          Holds(test, After(body, Ints(env), j).env)
                    /\ ~Holds(test, After(body, Ints(env), k[1]).env)

\* C5 as stated: a failure in one function does not stop the run, every
\* later function is still visited, so a run that has ended has started the
\* visit of every function of the module.
C5_LaterFunctionsVisited ==
  (pc \in {"raised", "done"}) => fnIdx = NumFuncs

\* C5 as amended: an exception raised while a function is analysed leaves
\* the visitor and ends the run: the run stops in that function, which gets
\* no report, and no later function is visited.
C5_FailureStopsRun ==
  (failedAt # 0) =>
     /\ pc = "raised"
     /\ fnIdx = failedAt
     /\ Len(reports) = failedAt - 1

C5_Witness ==
  /\ failedAt # 0 /\ failedAt < NumFuncs
  /\ pc = "raised"

\* C6: visiting a Return sets the output of the current scope when it is not
\* set, and is an error that leaves the output unchanged when it is set.
C6_ReturnSetsOutputOnce ==
  (last.op = "Return" /\ stack # <<>>) =>
     IF PrevTop.output.set
     THEN pc = "raised" /\ Top.output = PrevTop.output
     ELSE pc = "run" => Top.output.set

\* the symbols scope sc knows: its locals, its steps and what it has changed
ScopeSymbols(sc) ==
  {l[2] : l \in sc.locals} \cup {sc.steps} \cup ChangedVars(sc)

\* the expressions affect is tried on: the symbols of the scope and the sums
\* of two symbols that have an effect
AffectInputs(sc) ==
  {PSym(s) : s \in ScopeSymbols(sc)}
    \cup {PAdd(PSym(p[1]), PSym(p[2])) :
             p \in {q \in ChangedVars(sc) \X ChangedVars(sc) : q[1] < q[2]}}

Idempotent(sc) ==
  \A e \in AffectInputs(sc) :
     Affect(symName, sc, Affect(symName, sc, e)) = Affect(symName, sc, e)

\* no recorded value mentions a symbol that has an effect
Closed(sc) ==
  \A k \in DOMAIN sc.effects :
     FreeSymbols(sc.effects[k][2]) \cap ChangedVars(sc) = {}

\* C7 as stated: in every scope, affect(affect(e)) = affect(e).
C7_AffectIdempotent ==
  \A d \in 1..Len(stack) : Idempotent(stack[d])

\* C7 as amended: affect(affect(e)) = affect(e) in every scope none of whose
\* recorded values mentions a symbol that has an effect in the scope.
C7_AffectIdempotentWhenClosed ==
  \A d \in 1..Len(stack) : Closed(stack[d]) => Idempotent(stack[d])

C7_Witness ==
  /\ last.op = "ForFold" /\ pc = "run"
  /\ Closed(Top)
  /\ Len(Top.effects) >= 2
  /\ FreeSymbols(EffGet(Top.effects, Top.steps)) # {}
  /\ Idempotent(Top)

\* C8: a statement never lowers the steps of its scope: affect(steps) after
\* the statement minus affect(steps) before it has no negative constant
\* term and no negative coefficient.
C8_StepsMonotone ==
  (pc = "run" /\ last.op \in {"Assign", "AugAssign", "ForFold", "WhileFold"}) =>
    LET before == IF last.op \in {"ForFold", "WhileFold"}
                  THEN PrevOuter ELSE PrevTop
        d == PSub(Affect(symName, Top, PSym(Top.steps)),
                  Affect(symName, before, PSym(before.steps)))
    IN  \A m \in DOMAIN d : d[m][1] >= 0

\* C9: for every symbol of an enclosing scope that the body of a while loop
\* changes, the effect recorded on the outer scope after the fold is the
\* value the symbol had before the loop advanced by K executions of the body.
C9_WhileFoldInstallsTrueValues ==
  (last.op = "WhileFold" /\ pc = "run") =>
    LET body == PrevTop
        outer == PrevOuter
        keys == {s \in ChangedVars(body) :
                    symOwner[s] \in Ancestors(body.uid)}
        E == keys \cup UNION {FreeSymbols(EffGet(body.effects, s)) : s \in keys}
        V == EntrySymbols(outer, E) \cup FreeSymbols(last.K)
               \cup UNION {FreeSymbols(EffGet(Top.effects, s)) : s \in keys}
    IN  \A v \in Valuations(V) :
           LET k == Eval(last.K, v)
               env == EntryEnv(outer, E, v)
           IN  (k[2] = 1 /\ k[1] >= 0 /\ Whole(env)) =>
                  LET run == After(body, Ints(env), k[1])
                  IN  run.ok =>
                        \A s \in keys :
                           Eval(EffGet(Top.effects, s), v) = <<run.env[s], 1>>

\* C10 as stated: a key of a scope's effects is a symbol the scope owns.
C10_KeysOwned ==
  \A d \in 1..Len(stack) :
     \A s \in ChangedVars(stack[d]) : symOwner[s] = stack[d].uid

\* C10 as amended: a key of a scope's effects is a symbol owned by the
\* scope, by a scope above it, or by a scope that was nested in it and has
\* been folded into it.
C10_KeysOwnedAlongNesting ==
  \A d \in 1..Len(stack) :
     \A s \in ChangedVars(stack[d]) :
        \/ symOwner[s] = stack[d].uid
        \/ symOwner[s] \in Ancestors(stack[d].uid)
        \/ stack[d].uid \in Ancestors(symOwner[s])

C10_Witness ==
  /\ Len(stack) >= 2
  /\ \E s \in ChangedVars(Top) : symOwner[s] \in Ancestors(Top.uid)
  /\ \E s \in ChangedVars(stack[1]) : stack[1].uid \in Ancestors(symOwner[s])

====
